---- MODULE Spec2Model ----
(***************************************************************************)
(* Model of jules-scratch/verification/verify_ui.py: one coroutine, main(), *)
(* that drives a headless browser through a fixed sequence of awaited      *)
(* operations inside `async with async_playwright()` and a try/finally     *)
(* whose finally clause closes the browser.                                *)
(*                                                                         *)
(* Every awaited call is two steps of the model: the call is issued        *)
(* (Begin) and the browser reports its outcome (Succeed, Fail, or for the  *)
(* visibility wait Visible / Tick / Timeout).  The outcome of every call   *)
(* is chosen by the environment.                                           *)
(***************************************************************************)
EXTENDS Naturals, Sequences, FiniteSets

VARIABLES
    pc,         \* the call main() is at, or "done" once asyncio.run returned or raised
    inflight,   \* calls issued whose outcome has not been reported yet
    log,        \* calls issued by the current run, in the order of issue
    result,     \* per call of the current run: "none", "ok", "fail" or "timeout"
    exc,        \* the exception in flight: <<>> or the chain of failures, the
                \* last one propagating, the earlier ones its __context__
    browser,    \* "none", "open", "closed" (by browser.close()) or "killed"
                \* (torn down with the driver when the playwright context exits)
    closeCalls, \* number of browser.close() calls issued by the current run
    shots,      \* the screenshot requests issued by the current run
    files,      \* the files on disk: records [path, run, full_page]
    elapsed,    \* milliseconds the visibility wait has been polling
    run,        \* number of the current execution of the script
    succeeded   \* earlier executions that ended without an exception

vars == <<pc, inflight, log, result, exc, browser, closeCalls, shots, files,
          elapsed, run, succeeded>>

\* Executions of the script that are modelled.
MaxRuns == 2

\* Milliseconds between two polls of the visibility wait.
PollMs == 20000

\* timeout=60000 of expect(...).to_be_visible (line 22).
TimeoutMs == 60000

\* The first screenshot is taken before the wait for the completion text.
ProgramShotBeforeWait ==
    << "start", "launch", "new_page", "goto", "set_input_files",
       "dispatch_event", "click_start", "screenshot_results",
       "expect_visible", "click_raw", "screenshot_raw", "close", "stop" >>

\* The awaited calls of main(), in program order (lines 5-34); "start" and
\* "stop" are the entry and the exit of `async with async_playwright()`.
Program ==
    << "start", "launch", "new_page", "goto", "set_input_files",
       "dispatch_event", "click_start", "expect_visible",
       "screenshot_results", "click_raw", "screenshot_raw", "close", "stop" >>

Steps == { Program[i] : i \in DOMAIN Program }

\* The calls inside the try block (lines 10-31).
TrySteps ==
    { "goto", "set_input_files", "dispatch_event", "click_start",
      "expect_visible", "screenshot_results", "click_raw", "screenshot_raw" }

ScreenshotSteps == { "screenshot_results", "screenshot_raw" }

Index(s) == CHOOSE i \in DOMAIN Program : Program[i] = s

\* A call that is never awaited would let main() go on at once.
AwaitedExceptClicks(s) == s \notin { "click_start", "click_raw" }

\* Every call of main() is awaited: main() is suspended until it completes.
Awaited(s) == TRUE

\* The second screenshot is skipped.
OnSuccessSkipRawShot(s) ==
    IF s = "stop" THEN "done"
    ELSE IF s = "click_raw" THEN "close"
    ELSE Program[Index(s) + 1]

\* Where main() goes on when call s returns normally: the next statement;
\* after the try block the finally clause; after __aexit__ asyncio.run returns.
OnSuccess(s) ==
    IF s = "stop" THEN "done" ELSE Program[Index(s) + 1]

\* A failure inside the try block is swallowed and the block goes on.
OnFailureSwallow(s) ==
    IF s \in {"start", "stop"} THEN "done"
    ELSE IF s \in {"launch", "new_page", "close"} THEN "stop"
    ELSE Program[Index(s) + 1]

\* A failed call is attempted again.
OnFailureRetry(s) ==
    IF s \in {"start", "stop"} THEN "done"
    ELSE IF s \in {"launch", "new_page", "close"} THEN "stop"
    ELSE IF s = "goto" THEN "goto"
    ELSE "close"

\* Where main() goes on when call s raises.  Entering the playwright context
\* failed: nothing to unwind.  launch and new_page (lines 6-7) are outside the
\* try block: only the context's __aexit__ runs.  Inside the try block
\* (lines 10-31) the finally clause runs.  After close() raised, __aexit__
\* still runs; after __aexit__ raised, the exception leaves main().
OnFailure(s) ==
    IF s \in {"start", "stop"} THEN "done"
    ELSE IF s \in {"launch", "new_page", "close"} THEN "stop"
    ELSE "close"

\* The screenshot goes to a path of its own in every execution.
ScreenshotPathPerRun(s, r) ==
    IF r = 1
    THEN (IF s = "screenshot_results" THEN "results.png" ELSE "raw_results.png")
    ELSE (IF s = "screenshot_results" THEN "results_n.png" ELSE "raw_results_n.png")

\* The two screenshot calls have each other's path.
ScreenshotPathSwapped(s, r) ==
    IF s = "screenshot_results" THEN "raw_results.png" ELSE "results.png"

\* path= of the two screenshot calls (lines 25 and 31): fixed strings, the
\* same in every execution r of the script.
ScreenshotPath(s, r) ==
    IF s = "screenshot_results" THEN "results.png" ELSE "raw_results.png"

\* The first screenshot asks for the full page.
ScreenshotFullPageFirst(s) == s = "screenshot_results"

\* full_page of the two screenshot calls (lines 25 and 31): the keyword is not
\* passed, which leaves the capture at the viewport.
ScreenshotFullPage(s) == FALSE

\* The visibility wait has used up its timeout (line 22).
TimedOut(e) == e >= TimeoutMs

\* Raising while another exception is being handled: the new exception
\* propagates and the old one becomes its __context__.
Raise(chain, s, kind) == Append(chain, [step |-> s, kind |-> kind])

\* The state of a run: where main() is, what it has issued and what it got
\* back, the exception in flight, the browser, and the files on disk.
TypeOK ==
    /\ pc \in Steps \cup {"done"}
    /\ inflight \subseteq Steps
    /\ log \in Seq(Steps)
    /\ result \in [Steps -> {"none", "ok", "fail", "timeout"}]
    /\ exc \in Seq([step : Steps, kind : {"error", "timeout"}])
    /\ browser \in {"none", "open", "closed", "killed"}
    /\ closeCalls \in Nat
    /\ shots \in Seq([step : ScreenshotSteps, path : STRING, full_page : BOOLEAN])
    /\ \A f \in files :
           f.path \in STRING /\ f.run \in 1..run /\ f.full_page \in BOOLEAN
    /\ elapsed \in Nat
    /\ run \in 1..MaxRuns
    /\ succeeded \in 0..(run - 1)

Init ==
    /\ pc = "start"
    /\ inflight = {}
    /\ log = <<>>
    /\ result = [s \in Steps |-> "none"]
    /\ exc = <<>>
    /\ browser = "none"
    /\ closeCalls = 0
    /\ shots = <<>>
    /\ files = {}
    /\ elapsed = 0
    /\ run = 1
    /\ succeeded = 0

\* main() issues call s.
Begin(s) ==
    /\ pc = s
    /\ s \notin inflight
    /\ inflight' = inflight \cup {s}
    /\ log' = Append(log, s)
    /\ pc' = IF Awaited(s) THEN pc ELSE OnSuccess(s)
    /\ closeCalls' = IF s = "close" THEN closeCalls + 1 ELSE closeCalls
    /\ shots' = IF s \in ScreenshotSteps
                THEN Append(shots, [step |-> s,
                                    path |-> ScreenshotPath(s, run),
                                    full_page |-> ScreenshotFullPage(s)])
                ELSE shots
    /\ elapsed' = IF s = "expect_visible" THEN 0 ELSE elapsed
    /\ UNCHANGED <<result, exc, browser, files, run, succeeded>>

\* What call s has done to the browser and the disk when it returns normally.
BrowserAfter(s) ==
    IF s = "launch" THEN "open"
    ELSE IF s = "close" THEN "closed"
    ELSE IF s = "stop" /\ browser = "open" THEN "killed"
    ELSE browser

FilesAfter(s) ==
    IF s \in ScreenshotSteps
    THEN { f \in files : f.path # ScreenshotPath(s, run) }
         \cup { [path |-> ScreenshotPath(s, run), run |-> run,
                 full_page |-> ScreenshotFullPage(s)] }
    ELSE files

\* Call s returns normally.
Return(s) ==
    /\ inflight' = inflight \ {s}
    /\ result' = [result EXCEPT ![s] = "ok"]
    /\ browser' = BrowserAfter(s)
    /\ files' = FilesAfter(s)
    /\ pc' = IF Awaited(s) THEN OnSuccess(s) ELSE pc
    /\ UNCHANGED <<log, exc, closeCalls, shots, elapsed, run, succeeded>>

\* Call s raises an exception of the given kind.
Throw(s, kind) ==
    /\ inflight' = inflight \ {s}
    /\ result' = [result EXCEPT ![s] = IF kind = "timeout" THEN "timeout" ELSE "fail"]
    /\ exc' = IF Awaited(s) THEN Raise(exc, s, kind) ELSE exc
    /\ pc' = IF Awaited(s) THEN OnFailure(s) ELSE pc
    /\ browser' = IF s = "stop" /\ browser = "open" THEN "killed" ELSE browser
    /\ UNCHANGED <<log, closeCalls, shots, files, elapsed, run, succeeded>>

\* A call other than the visibility wait completes.
Succeed(s) ==
    /\ s \in inflight
    /\ s # "expect_visible"
    /\ Return(s)

\* Any call fails (navigation error, locator not resolved, browser gone...).
Fail(s) ==
    /\ s \in inflight
    /\ Throw(s, "error")

\* The visibility wait polls: the text is visible.
Visible ==
    /\ "expect_visible" \in inflight
    /\ ~TimedOut(elapsed)
    /\ Return("expect_visible")

\* The visibility wait polls: the text is not visible yet.
Tick ==
    /\ "expect_visible" \in inflight
    /\ ~TimedOut(elapsed)
    /\ elapsed' = elapsed + PollMs
    /\ UNCHANGED <<pc, inflight, log, result, exc, browser, closeCalls, shots,
                   files, run, succeeded>>

\* The visibility wait ran out of time: it raises a timeout failure.
Timeout ==
    /\ "expect_visible" \in inflight
    /\ TimedOut(elapsed)
    /\ Throw("expect_visible", "timeout")

\* The script is executed again (line 36): a fresh process, the same disk.
Rerun ==
    /\ pc = "done"
    /\ inflight = {}
    /\ run < MaxRuns
    /\ run' = run + 1
    /\ succeeded' = IF exc = <<>> THEN succeeded + 1 ELSE succeeded
    /\ pc' = "start"
    /\ log' = <<>>
    /\ result' = [s \in Steps |-> "none"]
    /\ exc' = <<>>
    /\ browser' = "none"
    /\ closeCalls' = 0
    /\ shots' = <<>>
    /\ elapsed' = 0
    /\ UNCHANGED <<inflight, files>>

Step ==
    \/ \E s \in Steps : Begin(s)
    \/ \E s \in Steps : Succeed(s)
    \/ \E s \in Steps : Fail(s)
    \/ Visible
    \/ Tick
    \/ Timeout

Next == Step \/ Rerun

Spec == Init /\ [][Next]_vars

\* asyncio.run drives main() until it returns or raises, and the browser
\* answers every call: a run that can take a step eventually takes one.
FairSpec == Spec /\ WF_vars(Step)

----------------------------------------------------------------------------
(* What the claims speak of. *)

Done == pc = "done"

Failed(s) == result[s] \in {"fail", "timeout"}

NoFailure == \A s \in Steps : ~Failed(s)

Launched == result["launch"] = "ok"

Issued(s) == \E i \in DOMAIN log : log[i] = s

TimesIssued(s) == Cardinality({ i \in DOMAIN log : log[i] = s })

\* The paths the current run has written.
WrittenThisRun == { f.path : f \in { g \in files : g.run = run } }

OutputPaths == { "results.png", "raw_results.png" }

\* The calls of the try block that follow s in program order.
LaterTrySteps(s) == { t \in TrySteps : Index(t) > Index(s) }

Cleanup == { "close", "stop" }

----------------------------------------------------------------------------
\* C1: in every run, whether it succeeds or fails at any step (launch, new
\* page, navigation, ... second screenshot), the browser that was launched is
\* closed exactly once before the run ends: close() is never called twice,
\* and a run that launched a browser has called close() once when it ends.
C1_ClosedExactlyOnce ==
    /\ closeCalls <= 1
    /\ (Done /\ Launched) => closeCalls = 1

\* C2: a run in which every browser operation succeeds (the completion text
\* becomes visible within the wait bound) eventually terminates without
\* error, with results.png and raw_results.png both written by that run: a
\* run that has started leads to a failed operation or to that end.
C2_SuccessTerminates ==
    (pc = "start")
        ~> (~NoFailure \/ (Done /\ exc = <<>> /\ WrittenThisRun = OutputPaths))

C2_Witness ==
    Done /\ NoFailure /\ exc = <<>> /\ WrittenThisRun = OutputPaths

\* C3: if navigation fails, no later call of the sequence (file attach, ...,
\* second screenshot) is ever issued, the run writes neither screenshot, and
\* it ends in failure.
C3_NavigationFailure ==
    Failed("goto") =>
        /\ \A t \in LaterTrySteps("goto") : ~Issued(t) /\ result[t] = "none"
        /\ shots = <<>>
        /\ WrittenThisRun = {}
        /\ Done => exc # <<>>

C3_Witness == Done /\ Failed("goto") /\ run = 2 /\ files # {}

\* C4: if the completion text does not become visible within the 60 s bound,
\* the wait raises a timeout failure, the run ends in failure with that
\* timeout at the root of the exception that reaches the caller, and the run
\* has requested and written no screenshot.
C4_TimeoutNoScreenshots ==
    result["expect_visible"] = "timeout" =>
        /\ elapsed >= TimeoutMs
        /\ shots = <<>>
        /\ WrittenThisRun = {}
        /\ exc # <<>>
        /\ exc[1] = [step |-> "expect_visible", kind |-> "timeout"]

C4_Witness == Done /\ result["expect_visible"] = "timeout"

\* C5: when any step fails, the failure that reaches the caller is that
\* step's own failure, unmodified, and it reaches the caller only after the
\* browser-close cleanup has run, also when the cleanup itself can fail.
\* Stated for the steps from the browser launch to the close: at the end of
\* a failed run the exception is the first failure alone, and close() has
\* been called and has completed if a browser was launched.
C5_OwnFailureAfterCleanup ==
    (Done /\ exc # <<>> /\ ~Failed("start") /\ ~Failed("stop")) =>
        /\ Len(exc) = 1
        /\ Launched => (closeCalls = 1 /\ result["close"] # "none")

\* C6: the script only ever writes the two output paths, and after a
\* successful run, however many runs preceded it, the files on disk are
\* exactly results.png and raw_results.png, each holding that run's capture.
C6_IdempotentOutputs ==
    /\ { f.path : f \in files } \subseteq OutputPaths
    /\ \A f, g \in files : f.path = g.path => f = g
    /\ (Done /\ exc = <<>>) =>
           /\ { f.path : f \in files } = OutputPaths
           /\ \A f \in files : f.run = run

C6_Witness == Done /\ exc = <<>> /\ run = 2 /\ succeeded = 1

\* C7: the operations of the try block are issued in program order, each
\* only after every earlier one has completed successfully, and at no time
\* are two operations in progress.
C7_ProgramOrder ==
    /\ Cardinality(inflight) <= 1
    /\ \A i, j \in DOMAIN log :
           (i < j /\ log[i] \in TrySteps /\ log[j] \in TrySteps)
               => Index(log[i]) < Index(log[j])
    /\ \A s \in TrySteps :
           Issued(s) => \A t \in TrySteps : Index(t) < Index(s) => result[t] = "ok"
    /\ \A s \in TrySteps : (s \in inflight) => (pc = s /\ result[s] = "none")

C7_Witness == Done /\ result["screenshot_raw"] = "ok"

\* C8: within one run every step is issued at most once, and once a step has
\* failed the only calls issued after it are the cleanup (close and the exit
\* of the playwright context).
C8_HardStop ==
    /\ \A s \in Steps : TimesIssued(s) <= 1
    /\ \A i, j \in DOMAIN log :
           (i < j /\ Failed(log[i])) => log[j] \in Cleanup
    /\ \A s \in Steps \ Cleanup :
           Failed(s) => pc \in Cleanup \cup {"done"}

C8_Witness ==
    Done /\ Failed("click_start") /\ Len(log) = Index("click_start") + 2

\* C9 as stated: both screenshots are requested in full-page mode.
C9_FullPage ==
    \A i \in DOMAIN shots : shots[i].full_page = TRUE

\* C9 amended: neither screenshot is requested in full-page mode; each
\* capture, to results.png and to raw_results.png, is a viewport capture.
C9_ViewportOnly ==
    /\ \A i \in DOMAIN shots :
           /\ shots[i].full_page = FALSE
           /\ shots[i].path = ScreenshotPath(shots[i].step, run)
    /\ \A f \in files : f.full_page = FALSE

C9_Witness ==
    /\ Len(shots) = 2
    /\ { shots[i].path : i \in DOMAIN shots } = OutputPaths
    /\ WrittenThisRun = OutputPaths

\* C10: raw_results.png has been written by this run only if results.png was
\* written earlier in the run and the raw click succeeded in between; a run
\* that fails at the raw click or at the second screenshot ends in failure
\* having written exactly results.png.
C10_PartialArtifacts ==
    /\ "raw_results.png" \in WrittenThisRun =>
           /\ "results.png" \in WrittenThisRun
           /\ result["screenshot_results"] = "ok"
           /\ result["click_raw"] = "ok"
           /\ \E i, j, k \in DOMAIN log :
                  /\ i < j /\ j < k
                  /\ log[i] = "screenshot_results"
                  /\ log[j] = "click_raw"
                  /\ log[k] = "screenshot_raw"
    /\ (Failed("click_raw") \/ Failed("screenshot_raw")) =>
           /\ WrittenThisRun = {"results.png"}
           /\ exc # <<>>

C10_Witness ==
    Done /\ Failed("screenshot_raw") /\ WrittenThisRun = {"results.png"}

====
